---- MODULE Spec2Model ----
(***************************************************************************)
(* Model of src/grpc/charts.rs: the GetChart handler of ChartService and   *)
(* the memoized get_chart_cached it calls.                                  *)
(*                                                                         *)
(* get_chart_cached carries #[cached(time = 86400, sync_writes = true,     *)
(* key = "String", convert = format!("{:?}{:?}", category, timeframe),     *)
(* result = true)].  For an async fn that attribute expands to             *)
(*     let key = convert;                                                  *)
(*     let mut cache = CACHE.lock().await;          (one async Mutex)      *)
(*     if let Some(v) = cache.cache_get(&key) { return Ok(v.clone()) }     *)
(*     let result = inner(category, timeframe).await;   (lock still held)  *)
(*     if let Ok(v) = &result { cache.cache_set(key, v.clone()) }          *)
(*     result                                                              *)
(* over a TimedCache<String, Chart> of lifespan 86400 s without refresh.   *)
(* The default build (feature skip_cache off) is the one modelled.         *)
(***************************************************************************)
EXTENDS Integers, Sequences, FiniteSets, TLC

VARIABLES
    req,        \* per request: position in get_chart, its locals, its outcome
    cache,      \* the TimedCache store: key -> (stamp, value)
    locked,     \* the async Mutex around the cache is held
    waiters,    \* FIFO queue of requests suspended in CACHE.lock().await
    fetches,    \* history of the calls of VoteSummary::get_for_timeframe
    now,        \* the clock (whole seconds), read by Instant::now / elapsed
    nticks      \* number of clock steps taken (bounds the model)

vars == <<req, cache, locked, waiters, fetches, now, nticks>>

----------------------------------------------------------------------------
(* Bounds of the model *)

NReq == 3
MaxTicks == 2
MaxCancel == 1

Reqs == 1..NReq

----------------------------------------------------------------------------
(* Wire values and the enums they decode to *)

\* Timeframe (crate::db): #[repr(i32)] with FromRepr
TimeframeRepr == [Unspecified |-> 0, Daily |-> 1, Weekly |-> 2]
Timeframes == DOMAIN TimeframeRepr

\* Category (crate::db): #[repr(i32)] with FromRepr; two variants are kept
CategoryRepr == [ArtAndDesign |-> 0, Games |-> 1]
Categories == DOMAIN CategoryRepr

\* Option<T> is a sequence of length 0 (None) or 1 (Some(x))
None == <<>>
Some(x) == <<x>>

\* the (timeframe, category) a request may carry: a known and an unknown
\* timeframe ordinal, each without a category and with an unknown one
Wire == {<<1, None>>, <<9, None>>, <<1, Some(99)>>, <<9, Some(99)>>}

\* strum's from_repr: Some(variant) for a known discriminant, else None
Timeframe_from_repr(i) ==
    IF \E t \in Timeframes : TimeframeRepr[t] = i
    THEN Some(CHOOSE t \in Timeframes : TimeframeRepr[t] = i)
    ELSE None

Category_from_repr(i) ==
    IF \E c \in Categories : CategoryRepr[c] = i
    THEN Some(CHOOSE c \in Categories : CategoryRepr[c] = i)
    ELSE None

\* `timeframe as i32`, `c as i32`
Timeframe_as_i32(t) == TimeframeRepr[t]
Category_as_i32(c) == CategoryRepr[c]

----------------------------------------------------------------------------
(* tonic::Status constructors used by the handler *)

Status_ok == [code |-> "Ok", message |-> ""]
Status_invalid_argument(m) == [code |-> "InvalidArgument", message |-> m]
Status_not_found(m) == [code |-> "NotFound", message |-> m]
Status_unknown(m) == [code |-> "Unknown", message |-> m]
NoStatus == [code |-> "", message |-> ""]

----------------------------------------------------------------------------
(* Validation, lines 42-49 *)

\* the category swapped for None when it does not decode
decode_category_lenient(category) ==
    IF category = None \/ Category_from_repr(category[1]) = None
    THEN [ok |-> TRUE, value |-> None, status |-> NoStatus]
    ELSE [ok |-> TRUE, value |-> Category_from_repr(category[1]), status |-> NoStatus]

\* match category { Some(c) => Some(from_repr(c).ok_or(invalid_argument)?), None => None }
decode_category(category) ==
    IF category = None
    THEN [ok |-> TRUE, value |-> None, status |-> NoStatus]
    ELSE IF Category_from_repr(category[1]) = None
         THEN [ok |-> FALSE, value |-> None,
               status |-> Status_invalid_argument("invalid category value")]
         ELSE [ok |-> TRUE, value |-> Category_from_repr(category[1]),
               status |-> NoStatus]

\* the fallback taken for the first real window instead of Unspecified
decode_timeframe_daily(timeframe) ==
    IF Timeframe_from_repr(timeframe) = None
    THEN "Daily"
    ELSE Timeframe_from_repr(timeframe)[1]

\* Timeframe::from_repr(timeframe).unwrap_or(Timeframe::Unspecified)
decode_timeframe(timeframe) ==
    IF Timeframe_from_repr(timeframe) = None
    THEN "Unspecified"
    ELSE Timeframe_from_repr(timeframe)[1]

----------------------------------------------------------------------------
(* The cache key, line 96: format!("{:?}{:?}", category, timeframe) *)

Debug_Option(category) ==
    IF category = None THEN "None" ELSE "Some(" \o category[1] \o ")"

\* the key made of the timeframe alone
convert_timeframe_only(category, timeframe) == timeframe

convert(category, timeframe) == Debug_Option(category) \o timeframe

Keys == {convert(c, t) : c \in {None} \cup {Some(x) : x \in Categories},
                         t \in Timeframes}

----------------------------------------------------------------------------
(* Store data and charts *)

CdA == [raw_rating |-> 91,
        rating |-> [snap_id |-> "a", total_votes |-> 500, ratings_band |-> "VeryGood"]]
CdB == [raw_rating |-> 70,
        rating |-> [snap_id |-> "b", total_votes |-> 10, ratings_band |-> "Neutral"]]

\* what VoteSummary::get_for_timeframe may return on success, already mapped
\* entry by entry to ChartData
Summaries == {<<>>, <<CdA>>}

\* the detail a db::Error may carry
StoreErrors == {"FailedToGetChart"}

\* Chart::new(timeframe, summaries): keeps the order of the summaries
Chart_new(timeframe, summaries) == [timeframe |-> timeframe, data |-> summaries]

NoChart == [timeframe |-> "", data |-> <<>>]

\* Result<Chart, db::Error>
Ok(chart) == [tag |-> "Ok", value |-> chart, error |-> ""]
Err(e) == [tag |-> "Err", value |-> NoChart, error |-> e]
NoResult == [tag |-> "", value |-> NoChart, error |-> ""]

\* get_snap_name on success
SnapName == [a |-> "Alpha", b |-> "Beta"]
Pending == "<pending>"
\* the mark of a lookup that returned an error
Failed == "<failed>"

\* RatingsBand (crate::ratings): #[repr(i32)]; `ratings_band as i32`
RatingsBandRepr == [VeryGood |-> 0, Good |-> 1, Neutral |-> 2, Poor |-> 3,
                    VeryPoor |-> 4, InsufficientVotes |-> 5]
RatingsBands == DOMAIN RatingsBandRepr

\* the discriminants counted from one, as if zero were kept for "unspecified"
RatingsBand_as_i32_one_based(rb) == RatingsBandRepr[rb] + 1

RatingsBand_as_i32(rb) == RatingsBandRepr[rb]

\* PbRating::from_rating_and_snap_name, lines 121-128
from_rating_and_snap_name(rating, snap_name) ==
    [snap_id |-> rating.snap_id,
     total_votes |-> rating.total_votes,
     ratings_band |-> RatingsBand_as_i32(rating.ratings_band),
     snap_name |-> snap_name]

\* PbChartData::from_chart_data_and_snap_name, lines 109-117
from_chart_data_and_snap_name(chart_data, snap_name) ==
    [raw_rating |-> chart_data.raw_rating,
     rating |-> Some(from_rating_and_snap_name(chart_data.rating, snap_name))]

\* RatingsBand::from_repr (strum::FromRepr), line 136
RatingsBand_from_repr(n) ==
    IF \E rb \in RatingsBands : RatingsBandRepr[rb] = n
    THEN Some(CHOOSE rb \in RatingsBands : RatingsBandRepr[rb] = n)
    ELSE None

\* the outcome of .unwrap() on None
Panic == "<panic>"

\* From<PbRating> for Rating, lines 132-138
Rating_from_PbRating(r) ==
    LET rb == RatingsBand_from_repr(r.ratings_band)
    IN IF rb = None
       THEN Panic
       ELSE [snap_id |-> r.snap_id,
             total_votes |-> r.total_votes,
             ratings_band |-> rb[1]]

\* From<RatingsBand> for PbRatingsBand, lines 142-151: the variants of the
\* generated enum are written Pb<name>
PbRatingsBand_from(rb) ==
    CASE rb = "VeryGood" -> "PbVeryGood"
      [] rb = "Good" -> "PbGood"
      [] rb = "Neutral" -> "PbNeutral"
      [] rb = "Poor" -> "PbPoor"
      [] rb = "VeryPoor" -> "PbVeryPoor"
      [] rb = "InsufficientVotes" -> "PbInsufficientVotes"

NoResponse == [timeframe |-> -1, category |-> None, ordered_chart_data |-> <<>>]

----------------------------------------------------------------------------
(* The attribute's arguments, lines 92-98 *)

\* time = 86400: the lifespan of an entry in seconds
time == 86400

\* an entry is still good one second longer
Expired_late(stamp, t) == ~(t - stamp <= time)

\* an entry is dropped one second early
Expired_early(stamp, t) == ~(t - stamp < time - 1)

\* TimedCache::cache_get: an entry is served while elapsed().as_secs() < seconds
Expired(stamp, t) == ~(t - stamp < time)

\* the stamp moved to the time of the hit (TimedCache with refresh on)
refresh_on(stamp, t) == t

\* refresh is not set: a hit leaves the stamp of the entry alone
refresh(stamp, t) == stamp

\* every returned value is stored, the errors too
Cacheable_all(result) == TRUE

\* nothing is stored
Cacheable_none(result) == FALSE

\* result = true: only the Ok values the function returns are stored
\* only the charts that have entries stored
Cacheable_nonempty(result) == result.tag = "Ok" /\ result.value.data # <<>>

Cacheable(result) == result.tag = "Ok"

\* the lock is taken whether or not another task holds it
MutexAvailable_barging(l, w) == TRUE

\* sync_writes = true: one async Mutex guards the whole cache, it is taken
\* before the lookup and held across the call of the function body; the
\* Mutex is fair, a task gets it at once only when nobody holds or awaits it
MutexAvailable(l, w) == ~l /\ w = <<>>

NoEntry == [present |-> FALSE, stamp |-> 0, value |-> NoResult, fetch |-> 0]

----------------------------------------------------------------------------
(* State *)

\* a request before it is issued.  order lists the entries in the order their
\* name lookups returned.  order, hit, fetched, fetchId, at, nfetch and
\* waitedOn record what the request did at the cache (at: when it looked its
\* key up, nfetch: the number of store calls made until then, waitedOn: the
\* store call for its key it found in flight); the code does not read them.
InitReq ==
    [pc |-> "idle",
     timeframe_raw |-> 0, category_raw |-> None,
     category |-> None, timeframe |-> "", key |-> "",
     chart |-> NoResult, names |-> <<>>, order |-> <<>>,
     status |-> NoStatus, response |-> NoResponse,
     hit |-> FALSE, fetched |-> FALSE, fetchId |-> 0,
     at |-> -1, nfetch |-> 0, waitedOn |-> 0]

Init ==
    /\ req = [r \in Reqs |-> InitReq]
    /\ cache = [k \in Keys |-> NoEntry]
    /\ locked = FALSE
    /\ waiters = <<>>
    /\ fetches = <<>>
    /\ now = 0
    /\ nticks = 0

\* the fetch in flight for key k, 0 when there is none
InFlight(k) ==
    IF \E i \in 1..Len(fetches) : fetches[i].key = k /\ fetches[i].res = "pending"
    THEN CHOOSE i \in 1..Len(fetches) : fetches[i].key = k /\ fetches[i].res = "pending"
    ELSE 0

Remove(q, r) == SelectSeq(q, LAMBDA x : x # r)

----------------------------------------------------------------------------
(* get_chart after get_chart_cached has returned, lines 53-88 *)

\* the entries collected in the order the lookups returned in
payload_arrival(rec, names) ==
    [timeframe |-> Timeframe_as_i32(rec.timeframe),
     category |-> IF rec.category = None THEN None
                  ELSE Some(Category_as_i32(rec.category[1])),
     ordered_chart_data |->
        [k \in 1..Len(names) |->
            from_chart_data_and_snap_name(rec.chart.value.data[rec.order[k]],
                                          names[rec.order[k]])]]

\* the response payload, lines 75-79, once every name is there
payload(rec, names) ==
    [timeframe |-> Timeframe_as_i32(rec.timeframe),
     category |-> IF rec.category = None THEN None
                  ELSE Some(Category_as_i32(rec.category[1])),
     ordered_chart_data |->
        [i \in 1..Len(names) |->
            from_chart_data_and_snap_name(rec.chart.value.data[i], names[i])]]

\* the detail of the store's error put into the message of the status
match_chart_leaky(rec, chart) ==
    IF chart.tag = "Err"
    THEN [rec EXCEPT !.pc = "done", !.chart = chart,
                     !.status = Status_unknown("Internal server error: " \o chart.error)]
    ELSE IF chart.value.data = <<>>
         THEN [rec EXCEPT !.pc = "done", !.chart = chart,
                          !.status = Status_not_found("Cannot find data for given timeframe.")]
         ELSE [rec EXCEPT !.pc = "enrich", !.chart = chart,
                          !.names = [i \in 1..Len(chart.value.data) |-> Pending]]

\* the arm for the empty chart left out: the join over no lookup yields the
\* empty list at once and the response is built from it
match_chart_no_empty_arm(rec, chart) ==
    IF chart.tag = "Err"
    THEN [rec EXCEPT !.pc = "done", !.chart = chart,
                     !.status = Status_unknown("Internal server error")]
    ELSE IF chart.value.data = <<>>
         THEN [rec EXCEPT !.pc = "done", !.chart = chart,
                          !.status = Status_ok,
                          !.response = payload([rec EXCEPT !.chart = chart], <<>>)]
         ELSE [rec EXCEPT !.pc = "enrich", !.chart = chart,
                          !.names = [i \in 1..Len(chart.value.data) |-> Pending]]

\* match chart { Ok(chart) if chart.data.is_empty() => .., Ok(chart) => .., Err(e) => .. }
\* up to the first suspension: the name lookups are all started together
match_chart(rec, chart) ==
    IF chart.tag = "Err"
    THEN [rec EXCEPT !.pc = "done", !.chart = chart,
                     !.status = Status_unknown("Internal server error")]
    ELSE IF chart.value.data = <<>>
         THEN [rec EXCEPT !.pc = "done", !.chart = chart,
                          !.status = Status_not_found("Cannot find data for given timeframe.")]
         ELSE [rec EXCEPT !.pc = "enrich", !.chart = chart,
                          !.names = [i \in 1..Len(chart.value.data) |-> Pending]]

----------------------------------------------------------------------------
(* get_chart_cached with the lock held, lines 92-106 *)

\* r, whose locals are rec, holds the lock: cache_get, then either the
\* cached value is returned (and the guard dropped) or the store is called
\* with the guard kept
WithLock(r, rec) ==
    LET e == cache[rec.key]
        found == e.present /\ ~Expired(e.stamp, now)
        rec1 == [rec EXCEPT !.at = now, !.nfetch = Len(fetches)]
    IN IF found
       THEN /\ cache' = [cache EXCEPT ![rec.key].stamp = refresh(e.stamp, now)]
            /\ locked' = FALSE
            /\ req' = [req EXCEPT ![r] =
                          match_chart([rec1 EXCEPT !.hit = TRUE, !.fetchId = e.fetch],
                                      e.value)]
            /\ UNCHANGED fetches
       ELSE \* an expired entry is removed by cache_get
            /\ cache' = [cache EXCEPT ![rec.key] = NoEntry]
            /\ locked' = TRUE
            /\ req' = [req EXCEPT ![r] =
                          [rec1 EXCEPT !.pc = "fetch", !.fetched = TRUE,
                                       !.fetchId = Len(fetches) + 1]]
            /\ fetches' = Append(fetches,
                                 [key |-> rec.key, by |-> r,
                                  timeframe |-> rec.timeframe,
                                  category |-> rec.category,
                                  start |-> now, end |-> -1,
                                  res |-> "pending", result |-> NoResult])

----------------------------------------------------------------------------
(* Actions *)

\* a GetChart request arrives and runs to its first suspension, lines 37-51
GetChart(r, timeframe, category) ==
    /\ req[r].pc = "idle"
    /\ \A q \in Reqs : q < r => req[q].pc # "idle"
    /\ LET c == decode_category(category)
           rec0 == [req[r] EXCEPT !.timeframe_raw = timeframe,
                                  !.category_raw = category]
       IN IF ~c.ok
          THEN /\ req' = [req EXCEPT ![r] =
                             [rec0 EXCEPT !.pc = "done", !.status = c.status]]
               /\ UNCHANGED <<cache, locked, waiters, fetches>>
          ELSE LET tf == decode_timeframe(timeframe)
                   rec == [rec0 EXCEPT !.category = c.value, !.timeframe = tf,
                                       !.key = convert(c.value, tf)]
               IN IF MutexAvailable(locked, waiters)
                  THEN /\ WithLock(r, rec)
                       /\ UNCHANGED waiters
                  ELSE /\ req' = [req EXCEPT ![r] =
                                     [rec EXCEPT !.pc = "lock",
                                                 !.waitedOn = InFlight(rec.key)]]
                       /\ waiters' = Append(waiters, r)
                       /\ UNCHANGED <<cache, locked, fetches>>
    /\ UNCHANGED <<now, nticks>>

\* the Mutex is free and r is the first in its queue
LockAcquired(r) ==
    /\ req[r].pc = "lock"
    /\ ~locked
    /\ waiters # <<>>
    /\ Head(waiters) = r
    /\ waiters' = Tail(waiters)
    /\ WithLock(r, req[r])
    /\ UNCHANGED <<now, nticks>>

\* the guard of the Mutex kept when the store returned an error
FetchReturns_guard_kept_on_err(r, result) ==
    /\ req[r].pc = "fetch"
    /\ cache' = IF Cacheable(result)
                THEN [cache EXCEPT ![req[r].key] =
                         [present |-> TRUE, stamp |-> now, value |-> result,
                          fetch |-> req[r].fetchId]]
                ELSE cache
    /\ locked' = (result.tag = "Err")
    /\ fetches' = [fetches EXCEPT ![req[r].fetchId].end = now,
                                  ![req[r].fetchId].res =
                                       IF result.tag = "Ok" THEN "ok" ELSE "err",
                                  ![req[r].fetchId].result = result]
    /\ req' = [req EXCEPT ![r] = match_chart(req[r], result)]
    /\ UNCHANGED <<waiters, now, nticks>>

\* the store answers r's query: line 103 returns, line 105, then the
\* attribute's cache_set and the drop of the guard, then lines 53-88
FetchReturns(r, result) ==
    /\ req[r].pc = "fetch"
    /\ cache' = IF Cacheable(result)
                THEN [cache EXCEPT ![req[r].key] =
                         [present |-> TRUE, stamp |-> now, value |-> result,
                          fetch |-> req[r].fetchId]]
                ELSE cache
    /\ locked' = FALSE
    /\ fetches' = [fetches EXCEPT ![req[r].fetchId].end = now,
                                  ![req[r].fetchId].res =
                                       IF result.tag = "Ok" THEN "ok" ELSE "err",
                                  ![req[r].fetchId].result = result]
    /\ req' = [req EXCEPT ![r] = match_chart(req[r], result)]
    /\ UNCHANGED <<waiters, now, nticks>>

FetchOk(r, summaries) ==
    FetchReturns(r, Ok(Chart_new(req[r].timeframe, summaries)))

FetchErr(r, e) ==
    FetchReturns(r, Err(e))

\* the join yields the response as soon as one lookup has returned a name
SnapNameOk_eager(r, i) ==
    /\ req[r].pc = "enrich"
    /\ i \in 1..Len(req[r].names)
    /\ req[r].names[i] = Pending
    /\ LET names == [req[r].names EXCEPT
                        ![i] = SnapName[req[r].chart.value.data[i].rating.snap_id]]
           rec == [req[r] EXCEPT !.names = names, !.order = Append(@, i)]
       IN req' = [req EXCEPT ![r] =
                     [rec EXCEPT !.pc = "done",
                                 !.status = Status_ok,
                                 !.response = payload(rec, names)]]
    /\ UNCHANGED <<cache, locked, waiters, fetches, now, nticks>>

\* get_snap_name for entry i returns a name, lines 61-70; the join yields
\* the response when it was the last one, lines 72-81
SnapNameOk(r, i) ==
    /\ req[r].pc = "enrich"
    /\ i \in 1..Len(req[r].names)
    /\ req[r].names[i] = Pending
    /\ LET names == [req[r].names EXCEPT
                        ![i] = SnapName[req[r].chart.value.data[i].rating.snap_id]]
           rec == [req[r] EXCEPT !.names = names, !.order = Append(@, i)]
       IN req' = [req EXCEPT ![r] =
                     IF \A j \in 1..Len(names) : names[j] # Pending
                     THEN [rec EXCEPT !.pc = "done",
                                      !.status = Status_ok,
                                      !.response = payload(rec, names)]
                     ELSE rec]
    /\ UNCHANGED <<cache, locked, waiters, fetches, now, nticks>>

\* the failure of a lookup stored in the cache in place of the chart
SnapNameErr_cached(r, i) ==
    /\ req[r].pc = "enrich"
    /\ i \in 1..Len(req[r].names)
    /\ req[r].names[i] = Pending
    /\ req' = [req EXCEPT ![r] =
                  [req[r] EXCEPT !.pc = "done",
                                 !.names[i] = Failed,
                                 !.order = Append(@, i),
                                 !.status = Status_unknown("Internal server error")]]
    /\ cache' = [cache EXCEPT ![req[r].key].value = Err("lookup")]
    /\ UNCHANGED <<locked, waiters, fetches, now, nticks>>

\* the error of a lookup swallowed: the entry goes on with an empty name
SnapNameErr_tolerant(r, i) ==
    /\ req[r].pc = "enrich"
    /\ i \in 1..Len(req[r].names)
    /\ req[r].names[i] = Pending
    /\ LET names == [req[r].names EXCEPT ![i] = ""]
           rec == [req[r] EXCEPT !.names = names, !.order = Append(@, i)]
       IN req' = [req EXCEPT ![r] =
                     IF \A j \in 1..Len(names) : names[j] # Pending
                     THEN [rec EXCEPT !.pc = "done",
                                      !.status = Status_ok,
                                      !.response = payload(rec, names)]
                     ELSE rec]
    /\ UNCHANGED <<cache, locked, waiters, fetches, now, nticks>>

\* get_snap_name for entry i fails: try_join_all yields the error at once
\* and drops the other lookups, lines 66 and 72-73
SnapNameErr(r, i) ==
    /\ req[r].pc = "enrich"
    /\ i \in 1..Len(req[r].names)
    /\ req[r].names[i] = Pending
    /\ req' = [req EXCEPT ![r] =
                  [req[r] EXCEPT !.pc = "done",
                                 !.names[i] = Failed,
                                 !.order = Append(@, i),
                                 !.status = Status_unknown("Internal server error")]]
    /\ UNCHANGED <<cache, locked, waiters, fetches, now, nticks>>

\* the caller goes away: the server drops the future of get_chart at the
\* await it is suspended in.  A future waiting for the lock leaves the
\* queue; a future inside the store call drops the guard with nothing set.
Cancel(r) ==
    /\ req[r].pc \in {"lock", "fetch", "enrich"}
    /\ Cardinality({q \in Reqs : req[q].pc = "cancelled"}) < MaxCancel
    /\ req' = [req EXCEPT ![r].pc = "cancelled"]
    /\ waiters' = Remove(waiters, r)
    /\ locked' = IF req[r].pc = "fetch" THEN FALSE ELSE locked
    /\ fetches' = IF req[r].pc = "fetch"
                  THEN [fetches EXCEPT ![req[r].fetchId].end = now,
                                       ![req[r].fetchId].res = "cancelled"]
                  ELSE fetches
    /\ UNCHANGED <<cache, now, nticks>>

\* time passes
TickSteps == {1, time - 1}

Tick(d) ==
    /\ nticks < MaxTicks
    /\ now' = now + d
    /\ nticks' = nticks + 1
    /\ UNCHANGED <<req, cache, locked, waiters, fetches>>

Next ==
    \/ \E r \in Reqs, w \in Wire : GetChart(r, w[1], w[2])
    \/ \E r \in Reqs : LockAcquired(r)
    \/ \E r \in Reqs, s \in Summaries : FetchOk(r, s)
    \/ \E r \in Reqs, e \in StoreErrors : FetchErr(r, e)
    \/ \E r \in Reqs : \E i \in 1..Len(req[r].names) : SnapNameOk(r, i)
    \/ \E r \in Reqs : \E i \in 1..Len(req[r].names) : SnapNameErr(r, i)
    \/ \E r \in Reqs : Cancel(r)
    \/ \E d \in TickSteps : Tick(d)

Spec == Init /\ [][Next]_vars

----------------------------------------------------------------------------
(* Vocabulary of the properties *)

Fetches == 1..Len(fetches)

\* r has looked its key up in the cache
Reached(r) == req[r].at >= 0

\* r has the value get_chart_cached returned to it
HasChart(r) == req[r].chart.tag # ""

\* the successful fetches of r's key that had returned when r looked the key up
PriorOk(r) ==
    {i \in 1..req[r].nfetch : /\ fetches[i].key = req[r].key
                              /\ fetches[i].res = "ok"}

Latest(S) == CHOOSE i \in S : \A j \in S : j <= i

----------------------------------------------------------------------------
(* C1: in every reachable state, for each cache key at most one store fetch
   (one computation of get_chart_cached) is in flight, whatever the number of
   requests for that key that are running. *)
C1_SingleFlight ==
    \A k \in Keys :
        /\ Cardinality({r \in Reqs : req[r].pc = "fetch" /\ req[r].key = k}) <= 1
        /\ Cardinality({i \in Fetches : fetches[i].key = k
                                        /\ fetches[i].res = "pending"}) <= 1

\* two requests for one key are running: one fetches, the other waits
C1_Witness ==
    \E r1, r2 \in Reqs :
        /\ r1 # r2
        /\ req[r1].key = req[r2].key
        /\ req[r1].pc = "fetch"
        /\ req[r2].pc = "lock"

----------------------------------------------------------------------------
(* C2, as claimed: when requests for one key are issued concurrently on a
   miss or expired entry, exactly one store fetch is performed, the other
   callers wait until it has returned, and all of them receive the same
   result, be it a chart or a store error. *)
C2_AsClaimed ==
    \A r \in Reqs :
        LET f == req[r].waitedOn
        IN (f # 0 /\ fetches[f].res \in {"ok", "err"} /\ HasChart(r)
            /\ req[r].at - fetches[f].end < time)
           => /\ ~req[r].fetched
              /\ req[r].chart = fetches[f].result

(* C2, amended: when requests for one key are issued concurrently on a miss
   or expired entry, the callers that found the computation in flight wait
   until its store fetch has ended.  If that fetch succeeded, every waiter
   that looks the key up before the entry expires performs no store fetch
   and receives the very chart the computer received.  If it failed, nothing
   was cached and a waiter never receives that failure: it gets its result
   from a later store fetch (its own, or the one of a waiter before it). *)
C2_SingleFlightOnSuccess ==
    \A r \in Reqs :
        LET f == req[r].waitedOn
        IN f # 0 =>
            /\ fetches[f].key = req[r].key
            /\ fetches[f].res = "pending" => req[r].pc \in {"lock", "cancelled"}
            /\ (fetches[f].res = "ok" /\ Reached(r)
                /\ req[r].at - fetches[f].end < time)
               => /\ ~req[r].fetched
                  /\ req[r].hit
                  /\ req[r].fetchId = f
                  /\ req[r].chart = fetches[f].result
                  /\ \A i \in Fetches : fetches[i].by # r
            /\ (fetches[f].res = "err" /\ Reached(r))
               => /\ req[r].fetchId > f
                  /\ fetches[req[r].fetchId].key = req[r].key
                  /\ HasChart(r) => req[r].chart = fetches[req[r].fetchId].result

\* a waiter got the non-empty chart the computer fetched, computer and waiter
\* both being served
C2_Witness ==
    \E r \in Reqs :
        LET f == req[r].waitedOn
        IN /\ f # 0
           /\ fetches[f].res = "ok"
           /\ req[r].hit
           /\ req[r].chart.value.data # <<>>
           /\ req[r].chart = req[fetches[f].by].chart
           /\ req[fetches[f].by].pc \in {"enrich", "done"}

----------------------------------------------------------------------------
(* C3, as claimed: after a store fetch for a key has failed, every request
   for that key within the 24 hours that follow returns the cached failure
   without a new store fetch. *)
C3_AsClaimed ==
    \A f \in Fetches : \A r \in Reqs :
        (/\ fetches[f].res = "err"
         /\ r # fetches[f].by
         /\ req[r].key = fetches[f].key
         /\ Reached(r)
         /\ req[r].fetchId >= f
         /\ req[r].at - fetches[f].end < time)
        => /\ ~req[r].fetched
           /\ HasChart(r) => req[r].chart = fetches[f].result

(* C3, amended: a failed store fetch is not cached.  The failure goes to the
   request that made the fetch, as the status "Internal server error", and
   to no other: the cache only ever holds charts, a request served from the
   cache never receives a failure, and a request that looks the key up after
   the failure, with no successful fetch of the key in between, performs a
   new store fetch, also within the 24 hours. *)
C3_FailuresNotCached ==
    /\ \A k \in Keys : cache[k].present => cache[k].value.tag = "Ok"
    /\ \A f \in Fetches :
          fetches[f].res = "err" =>
              \A k \in Keys : cache[k].present => cache[k].fetch # f
    /\ \A r \in Reqs :
          /\ (HasChart(r) /\ req[r].chart.tag = "Err")
             => /\ req[r].fetched
                /\ ~req[r].hit
                /\ fetches[req[r].fetchId].by = r
                /\ req[r].pc = "done"
                /\ req[r].status.message = "Internal server error"
          /\ req[r].hit => fetches[req[r].fetchId].res = "ok"
          /\ (Reached(r) /\ PriorOk(r) = {}) => req[r].fetched

\* a request fetched anew within the 24 hours after a failed fetch of its key
C3_Witness ==
    \E f \in Fetches : \E r \in Reqs :
        /\ fetches[f].res = "err"
        /\ r # fetches[f].by
        /\ req[r].key = fetches[f].key
        /\ req[r].fetched
        /\ req[r].fetchId > f
        /\ req[r].at - fetches[f].end < time

----------------------------------------------------------------------------
(* C4, as claimed: the number of store fetches for a key within one TTL
   window is exactly one, whatever the number of requests: no store fetch of
   a key starts less than 86400 s after an earlier one of that key returned. *)
C4_AsClaimed ==
    \A i, j \in Fetches :
        (/\ i < j
         /\ fetches[i].key = fetches[j].key
         /\ fetches[i].res \in {"ok", "err"})
        => fetches[j].start - fetches[i].end >= time

(* C4, amended: once a store fetch for a key has succeeded, no further store
   fetch for that key starts before 86400 s have passed since it returned,
   whatever the number of requests for the key in between; a request that
   finds a non-expired entry returns the stored chart without invoking the
   store.  (A fetch that failed stores nothing, and the next request for the
   key fetches again.) *)
C4_OneFetchPerSuccess ==
    /\ \A i, j \in Fetches :
          (/\ i < j
           /\ fetches[i].key = fetches[j].key
           /\ fetches[i].res = "ok")
          => fetches[j].start - fetches[i].end >= time
    /\ \A r \in Reqs :
          req[r].hit =>
              /\ ~req[r].fetched
              /\ \A i \in Fetches : fetches[i].by # r
              /\ fetches[req[r].fetchId].key = req[r].key
              /\ req[r].chart = fetches[req[r].fetchId].result
              /\ req[r].at - fetches[req[r].fetchId].end < time

\* two requests were served from the entry one successful fetch stored, the
\* second of them at the last second before it expired
C4_Witness ==
    \E f \in Fetches : \E r1, r2 \in Reqs :
        /\ r1 # r2
        /\ fetches[f].res = "ok"
        /\ req[r1].hit /\ req[r1].fetchId = f
        /\ req[r2].hit /\ req[r2].fetchId = f
        /\ req[r2].at - fetches[f].end = time - 1
        /\ Cardinality({i \in Fetches : fetches[i].key = fetches[f].key}) = 1

----------------------------------------------------------------------------
(* C5, as claimed: a request for a key K2 never waits for the computation in
   flight of a different key K1: whenever a request is suspended behind a
   store fetch, that fetch is for the request's own key. *)
C5_AsClaimed ==
    \A r1, r2 \in Reqs :
        (req[r1].pc = "fetch" /\ req[r2].pc = "lock")
        => req[r2].key = req[r1].key

----------------------------------------------------------------------------
(* C6: an entry expires exactly 86400 s after the computation that produced
   it returned, whatever the number of hits it served: a request that looks
   the key up less than 86400 s after the latest successful fetch of the key
   returned is served from the entry and performs no store fetch, and one
   that looks it up 86400 s after it or later performs a fresh store fetch;
   the stamp of an entry stays the time its fetch returned. *)
C6_ExpiresAfterTTL ==
    /\ \A k \in Keys :
          cache[k].present =>
              /\ fetches[cache[k].fetch].res = "ok"
              /\ cache[k].stamp = fetches[cache[k].fetch].end
    /\ \A r \in Reqs :
          (Reached(r) /\ PriorOk(r) # {}) =>
              LET f == Latest(PriorOk(r))
              IN IF req[r].at - fetches[f].end < time
                 THEN req[r].hit /\ ~req[r].fetched /\ req[r].fetchId = f
                 ELSE req[r].fetched /\ ~req[r].hit /\ req[r].fetchId > f

\* an entry served a hit, and the first request 86400 s after its fetch
\* returned fetched anew
C6_Witness ==
    \E f \in Fetches : \E r1, r2 \in Reqs :
        /\ fetches[f].res = "ok"
        /\ fetches[f].result.value.data # <<>>
        /\ req[r1].hit /\ req[r1].fetchId = f
        /\ req[r1].at > fetches[f].end
        /\ req[r2].fetched
        /\ req[r2].key = fetches[f].key
        /\ req[r2].at - fetches[f].end = time

----------------------------------------------------------------------------
(* C7, as claimed: when the request that computes a key is cancelled while
   its store fetch is in flight, the computation still completes and its
   result is cached, so that a request that was waiting on that key gets it
   without a further store fetch. *)
C7_AsClaimed ==
    \A r \in Reqs :
        LET f == req[r].waitedOn
        IN (f # 0 /\ req[fetches[f].by].pc = "cancelled" /\ Reached(r)
            /\ req[r].at - fetches[f].start < time)
           => /\ fetches[f].res # "cancelled"
              /\ ~req[r].fetched

----------------------------------------------------------------------------
(* C8, as claimed: every outcome of get_chart is a success or one of exactly
   three statuses, INVALID_ARGUMENT, NOT_FOUND and INTERNAL. *)
C8_AsClaimed ==
    \A r \in Reqs :
        req[r].pc = "done" =>
            req[r].status.code \in {"Ok", "InvalidArgument", "NotFound", "Internal"}

----------------------------------------------------------------------------
\* the category of the request is present and is no Category
BadCategory(rec) ==
    rec.category_raw # None /\ Category_from_repr(rec.category_raw[1]) = None

\* the timeframe ordinal of the request is no Timeframe
BadTimeframe(rec) == Timeframe_from_repr(rec.timeframe_raw) = None

Issued(r) == req[r].pc # "idle"

(* C9: a request whose category is present and decodes to no Category ends,
   in the step it is issued in, with the invalid-argument status, whatever
   its timeframe: that step changes neither the cache, nor the lock and its
   queue, nor the record of the store calls, and the request never looks a
   key up nor starts a name lookup. *)
C9_InvalidCategoryRejected ==
    [][\A r \in Reqs :
          (~Issued(r) /\ Issued(r)' /\ BadCategory(req'[r]))
          => /\ req'[r].pc = "done"
             /\ req'[r].status = Status_invalid_argument("invalid category value")
             /\ req'[r].response = NoResponse
             /\ ~req'[r].fetched /\ ~req'[r].hit
             /\ req'[r].at = -1
             /\ req'[r].key = ""
             /\ req'[r].names = <<>>
             /\ UNCHANGED <<cache, locked, waiters, fetches>>]_vars

\* requests with an unknown category were rejected, one with a known and one
\* with an unknown timeframe, while a store fetch was in flight
C9_Witness ==
    \E r1, r2, r3 \in Reqs :
        /\ req[r1].pc = "fetch"
        /\ BadCategory(req[r2]) /\ ~BadTimeframe(req[r2])
        /\ BadCategory(req[r3]) /\ BadTimeframe(req[r3])
        /\ req[r2].status.code = "InvalidArgument"
        /\ req[r3].status.code = "InvalidArgument"
        /\ Len(fetches) = 1

----------------------------------------------------------------------------
(* C10: an unrecognized timeframe ordinal is never the cause of a client
   error: a request that carries one is rejected only if its category is
   present and unknown; otherwise its timeframe is Unspecified, it goes
   through the cache, the store and the name lookups under the key of
   (category, Unspecified), and a successful response reports the timeframe
   Unspecified. *)
C10_TimeframeFallsBack ==
    \A r \in Reqs :
        (Issued(r) /\ BadTimeframe(req[r])) =>
            /\ req[r].status.code = "InvalidArgument" <=> BadCategory(req[r])
            /\ ~BadCategory(req[r]) =>
                /\ req[r].timeframe = "Unspecified"
                /\ req[r].key = convert(req[r].category, "Unspecified")
                /\ req[r].fetched =>
                      /\ fetches[req[r].fetchId].timeframe = "Unspecified"
                      /\ fetches[req[r].fetchId].key = req[r].key
                /\ req[r].status.code = "Ok" =>
                      /\ req[r].response.timeframe = Timeframe_as_i32("Unspecified")
                      /\ req[r].response.timeframe = 0
                      /\ req[r].response.ordered_chart_data # <<>>

\* a request with an unknown timeframe ordinal fetched its chart from the
\* store and was answered with the timeframe Unspecified
C10_Witness ==
    \E r \in Reqs :
        /\ BadTimeframe(req[r])
        /\ req[r].fetched
        /\ req[r].pc = "done"
        /\ req[r].status.code = "Ok"
        /\ req[r].response.timeframe = 0
        /\ Len(req[r].response.ordered_chart_data) = 1

----------------------------------------------------------------------------
(* C11: whenever the chart get_chart obtains for its key has no entry, be it
   fetched from the store or served from the cache, the request ends at once
   with the not-found status, never with a successful response, and no name
   lookup is started. *)
C11_EmptyIsNotFound ==
    \A r \in Reqs :
        (HasChart(r) /\ req[r].chart.tag = "Ok" /\ req[r].chart.value.data = <<>>)
        => /\ req[r].pc = "done"
           /\ req[r].status = Status_not_found("Cannot find data for given timeframe.")
           /\ req[r].response = NoResponse
           /\ req[r].names = <<>>

\* one request got the empty chart from the store, another from the cache
C11_Witness ==
    \E r1, r2 \in Reqs :
        /\ req[r1].fetched /\ req[r2].hit
        /\ req[r1].chart.tag = "Ok" /\ req[r1].chart.value.data = <<>>
        /\ req[r2].chart = req[r1].chart
        /\ req[r1].status.code = "NotFound"
        /\ req[r2].status.code = "NotFound"

----------------------------------------------------------------------------
(* The specification of the name lookups: the requests are all for one key,
   the store returns charts of one or two entries, in both orders, or fails
   with one of two details; the clock stands still. *)

WireEnrich == {<<1, None>>}
SummariesEnrich == {<<CdA>>, <<CdA, CdB>>, <<CdB, CdA>>}
StoreErrorsEnrich == {"FailedToGetChart", "ConnectionClosed"}

NextEnrich ==
    \/ \E r \in Reqs, w \in WireEnrich : GetChart(r, w[1], w[2])
    \/ \E r \in Reqs : LockAcquired(r)
    \/ \E r \in Reqs, s \in SummariesEnrich : FetchOk(r, s)
    \/ \E r \in Reqs, e \in StoreErrorsEnrich : FetchErr(r, e)
    \/ \E r \in Reqs : \E i \in 1..Len(req[r].names) : SnapNameOk(r, i)
    \/ \E r \in Reqs : \E i \in 1..Len(req[r].names) : SnapNameErr(r, i)
    \/ \E r \in Reqs : Cancel(r)

SpecEnrich == Init /\ [][NextEnrich]_vars

----------------------------------------------------------------------------
\* the chart of r has entries: r went on to the name lookups
NonEmpty(r) == HasChart(r) /\ req[r].chart.tag = "Ok" /\ req[r].chart.value.data # <<>>

Entries(r) == 1..Len(req[r].chart.value.data)

(* C12: for a chart of N entries, a request of which one name lookup failed
   ends with the handler's error status ("Internal server error") and no
   response; a successful response is given only when all N lookups
   returned a name, and then holds exactly N entries, each with the name
   looked up for it. *)
C12_AllOrNothing ==
    \A r \in Reqs :
        NonEmpty(r) =>
            /\ Len(req[r].names) = Len(req[r].chart.value.data)
            /\ (\E i \in Entries(r) : req[r].names[i] = Failed)
               => /\ req[r].pc = "done"
                  /\ req[r].status = Status_unknown("Internal server error")
                  /\ req[r].response = NoResponse
            /\ req[r].status.code = "Ok"
               => /\ req[r].pc = "done"
                  /\ Len(req[r].response.ordered_chart_data)
                        = Len(req[r].chart.value.data)
                  /\ \A i \in Entries(r) :
                        /\ req[r].names[i] =
                              SnapName[req[r].chart.value.data[i].rating.snap_id]
                        /\ req[r].response.ordered_chart_data[i].rating[1].snap_name
                              = req[r].names[i]
            /\ req[r].response # NoResponse => req[r].status.code = "Ok"

\* of two lookups one returned a name and the other failed
C12_Witness ==
    \E r \in Reqs :
        /\ NonEmpty(r)
        /\ Len(req[r].names) = 2
        /\ \E i, j \in Entries(r) :
              /\ req[r].names[i] = Failed
              /\ req[r].names[j] \notin {Failed, Pending}
        /\ req[r].status.code = "Unknown"

----------------------------------------------------------------------------
(* C13: in every successful response the i-th entry carries the raw score,
   the item id, the total votes and the band (as its integer) of the i-th
   entry of the chart the store returned, with the name looked up for that
   entry's item id, in whatever order the lookups returned. *)
C13_OrderPreserved ==
    \A r \in Reqs :
        req[r].status.code = "Ok" =>
            LET data == req[r].chart.value.data
                out == req[r].response.ordered_chart_data
            IN /\ Len(out) = Len(data)
               /\ req[r].fetched => fetches[req[r].fetchId].result.value.data = data
               /\ \A i \in 1..Len(data) :
                     /\ out[i].raw_rating = data[i].raw_rating
                     /\ out[i].rating[1].snap_id = data[i].rating.snap_id
                     /\ out[i].rating[1].total_votes = data[i].rating.total_votes
                     /\ out[i].rating[1].ratings_band
                           = RatingsBandRepr[data[i].rating.ratings_band]
                     /\ out[i].rating[1].snap_name = SnapName[data[i].rating.snap_id]

\* a successful response for a chart of two entries whose second lookup
\* returned before the first
C13_Witness ==
    \E r \in Reqs :
        /\ req[r].status.code = "Ok"
        /\ req[r].chart.value.data = <<CdB, CdA>>
        /\ req[r].order = <<2, 1>>
        /\ req[r].response.ordered_chart_data[1].rating[1].snap_name = "Beta"
        /\ req[r].response.ordered_chart_data[2].rating[1].snap_name = "Alpha"

----------------------------------------------------------------------------
\* the lookups of r that returned a name, that failed, that are still out
Named(r) == {i \in 1..Len(req[r].names) : req[r].names[i] \notin {Pending, Failed}}
FailedAt(r) == {i \in 1..Len(req[r].names) : req[r].names[i] = Failed}
PendingAt(r) == {i \in 1..Len(req[r].names) : req[r].names[i] = Pending}

(* C14: the failure of a name lookup is never cached.  The cache holds the
   chart as the store returned it; a request served that chart from the
   cache performs no store fetch, starts a lookup of its own for every entry
   and gets its outcome from its own lookups alone: it succeeds when they
   all return a name, and it fails only when one of its own lookups failed,
   whatever happened to the lookups of the requests before it. *)
C14_EnrichmentNotCached ==
    /\ \A k \in Keys :
          cache[k].present => cache[k].value = fetches[cache[k].fetch].result
    /\ \A r \in Reqs :
          (req[r].hit /\ HasChart(r)) =>
              /\ ~req[r].fetched
              /\ req[r].chart = fetches[req[r].fetchId].result
              /\ NonEmpty(r)
              /\ Len(req[r].names) = Len(req[r].chart.value.data)
              /\ req[r].pc = "done" =>
                    /\ req[r].order # <<>>
                    /\ req[r].status.code = "Ok" <=> FailedAt(r) = {}
                    /\ req[r].status.code = "Ok" => Named(r) = Entries(r)

\* a request failed on a name lookup, and a later request for the same key
\* got the chart of two entries from the cache and succeeded
C14_Witness ==
    \E r1, r2 \in Reqs :
        /\ r1 < r2
        /\ req[r1].key = req[r2].key
        /\ req[r1].fetched /\ FailedAt(r1) # {}
        /\ req[r2].hit /\ req[r2].fetchId = req[r1].fetchId
        /\ req[r2].nfetch = Len(fetches)
        /\ Len(req[r2].chart.value.data) = 2
        /\ req[r2].status.code = "Ok"

----------------------------------------------------------------------------
(* C15, as claimed: for a non-empty chart get_chart does not produce its
   outcome, success or error, before all the name lookups it started have
   completed. *)
C15_AsClaimed ==
    \A r \in Reqs :
        (NonEmpty(r) /\ req[r].pc = "done") => PendingAt(r) = {}

(* C15, amended: for a non-empty chart get_chart starts a name lookup for
   every chart entry together; it produces a successful outcome only once
   all of those lookups have returned a name, and it produces the error
   outcome in the step in which the first lookup fails, without waiting for
   the lookups that are still out. *)
C15_JoinWaitsForSuccess ==
    \A r \in Reqs :
        NonEmpty(r) =>
            /\ Len(req[r].names) = Len(req[r].chart.value.data)
            /\ Named(r) \cup FailedAt(r) = {req[r].order[k] : k \in 1..Len(req[r].order)}
            /\ req[r].pc = "enrich" =>
                  /\ PendingAt(r) # {}
                  /\ FailedAt(r) = {}
                  /\ req[r].status = NoStatus
            /\ req[r].status.code = "Ok" =>
                  /\ PendingAt(r) = {}
                  /\ FailedAt(r) = {}
            /\ (req[r].pc = "done" /\ req[r].status.code # "Ok") =>
                  /\ Cardinality(FailedAt(r)) = 1
                  /\ req[r].names[req[r].order[Len(req[r].order)]] = Failed

\* a request ended with the error while one of its two lookups was still out
C15_Witness ==
    \E r \in Reqs :
        /\ NonEmpty(r)
        /\ req[r].pc = "done"
        /\ req[r].status.code = "Unknown"
        /\ Cardinality(PendingAt(r)) = 1
        /\ Cardinality(FailedAt(r)) = 1

----------------------------------------------------------------------------
\* r ended because the store or a name lookup failed
StoreFailed(r) == HasChart(r) /\ req[r].chart.tag = "Err"
LookupFailed(r) == FailedAt(r) # {}

(* C16: what the caller sees of an upstream failure does not depend on its
   cause: any two requests that ended on a failure of the store, whatever
   its detail, or on a failure of a name lookup, have the same status code
   and the same message, and neither has a response. *)
C16_OpaqueFailure ==
    \A r1, r2 \in Reqs :
        ((StoreFailed(r1) \/ LookupFailed(r1)) /\ (StoreFailed(r2) \/ LookupFailed(r2)))
        => /\ req[r1].pc = "done" /\ req[r2].pc = "done"
           /\ req[r1].status.code = req[r2].status.code
           /\ req[r1].status.message = req[r2].status.message
           /\ req[r1].response = NoResponse
           /\ req[r2].response = NoResponse

\* two store failures of different detail and one failed lookup
C16_Witness ==
    \E r1, r2, r3 \in Reqs :
        /\ StoreFailed(r1) /\ StoreFailed(r2)
        /\ req[r1].chart.error # req[r2].chart.error
        /\ LookupFailed(r3)
        /\ req[r3].pc = "done"

----------------------------------------------------------------------------
(* The specification of the ratings bands: the requests go to three keys,
   and the store returns for each a chart of one entry whose band is any of
   the six; the clock stands still. *)

CdBand(rb) ==
    [raw_rating |-> 50,
     rating |-> [snap_id |-> "a", total_votes |-> 100, ratings_band |-> rb]]

WireBands == {<<1, None>>, <<2, None>>, <<9, None>>}
SummariesBands == {<<CdBand(rb)>> : rb \in RatingsBands}

NextBands ==
    \/ \E r \in Reqs, w \in WireBands : GetChart(r, w[1], w[2])
    \/ \E r \in Reqs : LockAcquired(r)
    \/ \E r \in Reqs, s \in SummariesBands : FetchOk(r, s)
    \/ \E r \in Reqs : \E i \in 1..Len(req[r].names) : SnapNameOk(r, i)
    \/ \E r \in Reqs : \E i \in 1..Len(req[r].names) : SnapNameErr(r, i)

SpecBands == Init /\ [][NextBands]_vars

\* the ratings as the store gave them and as the responses carry them
Succeeded(r) == req[r].pc = "done" /\ req[r].status.code = "Ok"
RatingOf(r, i) == req[r].chart.value.data[i].rating
PbRatingOf(r, i) == req[r].response.ordered_chart_data[i].rating[1]

(* C17: for each of the six bands, the integer a response carries for it
   converts back, with from_repr, to the band the store gave, so that the
   PbRating converts back to the Rating it was made from; two ratings of
   different bands are carried with different integers, and their bands
   convert to different variants of PbRatingsBand. *)
C17_BandRoundTrip ==
    /\ \A r \in Reqs : \A i \in Entries(r) :
          Succeeded(r) =>
              /\ RatingsBand_from_repr(PbRatingOf(r, i).ratings_band)
                     = Some(RatingOf(r, i).ratings_band)
              /\ Rating_from_PbRating(PbRatingOf(r, i)) = RatingOf(r, i)
    /\ \A r1, r2 \in Reqs : \A i \in Entries(r1) : \A j \in Entries(r2) :
          (/\ Succeeded(r1) /\ Succeeded(r2)
           /\ RatingOf(r1, i).ratings_band # RatingOf(r2, j).ratings_band)
          => /\ PbRatingOf(r1, i).ratings_band # PbRatingOf(r2, j).ratings_band
             /\ PbRatingsBand_from(RatingOf(r1, i).ratings_band)
                    # PbRatingsBand_from(RatingOf(r2, j).ratings_band)
    /\ \A f \in Fetches :
          fetches[f].res = "ok" =>
              \A i \in 1..Len(fetches[f].result.value.data) :
                  LET rb == fetches[f].result.value.data[i].rating.ratings_band
                  IN /\ RatingsBand_from_repr(RatingsBand_as_i32(rb)) = Some(rb)
                     /\ \A other \in RatingsBands :
                           PbRatingsBand_from(other) = PbRatingsBand_from(rb)
                           => other = rb

\* three responses carry three different bands, the last of the six among
\* them
C17_Witness ==
    \E r1, r2, r3 \in Reqs :
        /\ Succeeded(r1) /\ Succeeded(r2) /\ Succeeded(r3)
        /\ RatingOf(r1, 1).ratings_band = "InsufficientVotes"
        /\ RatingOf(r2, 1).ratings_band = "VeryGood"
        /\ RatingOf(r3, 1).ratings_band = "Poor"
        /\ PbRatingOf(r1, 1).ratings_band = 5

----------------------------------------------------------------------------
(* The specification of the keys: the requests ask for Daily with no
   category, for Daily with a category and for Weekly with that category;
   the store returns one of two charts of one entry; the clock stands
   still. *)

WireKeys == {<<1, None>>, <<1, Some(1)>>, <<2, Some(1)>>}
SummariesKeys == {<<CdA>>, <<CdB>>}

NextKeys ==
    \/ \E r \in Reqs, w \in WireKeys : GetChart(r, w[1], w[2])
    \/ \E r \in Reqs : LockAcquired(r)
    \/ \E r \in Reqs, s \in SummariesKeys : FetchOk(r, s)
    \/ \E r \in Reqs : \E i \in 1..Len(req[r].names) : SnapNameOk(r, i)
    \/ \E r \in Reqs : Cancel(r)

SpecKeys == Init /\ [][NextKeys]_vars

(* C18: the key is injective on (category option, timeframe): two requests
   that have the same key have the same decoded category option and the same
   decoded timeframe, an entry is stored under the key of the fetch that
   computed it, and the chart a request gets, from the store or from the
   cache, was computed by a store fetch with the request's own category
   option and timeframe; a request without category and one with a category
   never get their charts from one fetch. *)
C18_KeyInjective ==
    /\ \A r1, r2 \in Reqs :
          (Reached(r1) /\ Reached(r2) /\ req[r1].key = req[r2].key)
          => /\ req[r1].category = req[r2].category
             /\ req[r1].timeframe = req[r2].timeframe
    /\ \A k \in Keys :
          cache[k].present =>
              k = convert(fetches[cache[k].fetch].category,
                          fetches[cache[k].fetch].timeframe)
    /\ \A r \in Reqs :
          HasChart(r) =>
              /\ fetches[req[r].fetchId].category = req[r].category
              /\ fetches[req[r].fetchId].timeframe = req[r].timeframe
              /\ req[r].chart = fetches[req[r].fetchId].result
              /\ req[r].chart.value.timeframe = req[r].timeframe
    /\ \A r1, r2 \in Reqs :
          (/\ HasChart(r1) /\ HasChart(r2)
           /\ req[r1].category = None /\ req[r2].category # None)
          => req[r1].fetchId # req[r2].fetchId

\* Daily without category and Daily with a category were fetched apart and
\* got different charts, and a third request, for Daily without category,
\* was served the first of them from the cache
C18_Witness ==
    \E r1, r2, r3 \in Reqs :
        /\ req[r1].fetched /\ req[r2].fetched /\ req[r3].hit
        /\ req[r1].timeframe = "Daily" /\ req[r1].category = None
        /\ req[r2].timeframe = "Daily" /\ req[r2].category = Some("Games")
        /\ req[r3].timeframe = "Daily" /\ req[r3].category = None
        /\ HasChart(r1) /\ HasChart(r2)
        /\ req[r1].chart # req[r2].chart
        /\ req[r3].fetchId = req[r1].fetchId
        /\ req[r3].chart = req[r1].chart

----------------------------------------------------------------------------
(* C19: the empty chart is cached like any chart: a request that looks its
   key up less than 86400 s after the latest successful fetch of the key
   returned, that fetch having returned no entry, performs no store fetch,
   is served that empty chart from the cache and ends with the not-found
   status, whatever the store would return by then. *)
C19_EmptyChartCached ==
    \A r \in Reqs :
        (Reached(r) /\ PriorOk(r) # {}) =>
            LET f == Latest(PriorOk(r))
            IN (fetches[f].result.value.data = <<>>
                /\ req[r].at - fetches[f].end < time)
               => /\ req[r].hit
                  /\ ~req[r].fetched
                  /\ req[r].fetchId = f
                  /\ \A i \in Fetches : fetches[i].by # r
                  /\ req[r].chart = fetches[f].result
                  /\ req[r].pc = "done"
                  /\ req[r].status.code = "NotFound"

\* the store returned no entry; a request in the last second of the entry
\* got not-found from the cache; the request after it fetched anew and the
\* store returned an entry
C19_Witness ==
    \E r1, r2, r3 \in Reqs :
        /\ req[r1].fetched
        /\ req[r1].chart.tag = "Ok" /\ req[r1].chart.value.data = <<>>
        /\ req[r2].key = req[r1].key
        /\ req[r2].hit /\ req[r2].fetchId = req[r1].fetchId
        /\ req[r2].at - fetches[req[r1].fetchId].end = time - 1
        /\ req[r2].status.code = "NotFound"
        /\ req[r3].key = req[r1].key
        /\ req[r3].fetched
        /\ NonEmpty(r3)

----------------------------------------------------------------------------
(* The specification of progress: the requests go to two keys, the store
   returns the empty chart, a chart of one entry or an error, callers may
   disconnect; the clock stands still.  The Mutex of the cache is fair and
   hands the lock to the first in its queue; every store fetch and every
   name lookup returns. *)

NextLive ==
    \/ \E r \in Reqs, w \in Wire : GetChart(r, w[1], w[2])
    \/ \E r \in Reqs : LockAcquired(r)
    \/ \E r \in Reqs, s \in Summaries : FetchOk(r, s)
    \/ \E r \in Reqs, e \in StoreErrors : FetchErr(r, e)
    \/ \E r \in Reqs : \E i \in 1..Len(req[r].names) : SnapNameOk(r, i)
    \/ \E r \in Reqs : \E i \in 1..Len(req[r].names) : SnapNameErr(r, i)
    \/ \E r \in Reqs : Cancel(r)

\* the store answers r's query, with a chart or with an error
StoreAnswers(r) ==
    \/ \E s \in Summaries : FetchOk(r, s)
    \/ \E e \in StoreErrors : FetchErr(r, e)

\* one of the name lookups of r returns, with a name or with an error
LookupAnswers(r) ==
    \E i \in 1..Len(req[r].names) : SnapNameOk(r, i) \/ SnapNameErr(r, i)

Fairness ==
    \A r \in Reqs :
        /\ WF_vars(LockAcquired(r))
        /\ WF_vars(StoreAnswers(r))
        /\ WF_vars(LookupAnswers(r))

SpecLive == Init /\ [][NextLive]_vars /\ Fairness

(* C20: every request that was issued ends: it produces its outcome, a
   response or a status, unless its caller disconnected before.  No request
   stays in the queue of the lock, at the store or at the name lookups for
   ever, whether the requests are for one key or for two, and whether the
   request that computed the key succeeded, failed or was cancelled. *)
C20_EveryRequestEnds ==
    \A r \in Reqs : Issued(r) ~> (req[r].pc \in {"done", "cancelled"})

\* a request that waited behind a store fetch that failed has its outcome,
\* and so has a request for the other key
C20_Witness ==
    \E r1, r2 \in Reqs :
        /\ req[r1].waitedOn # 0
        /\ fetches[req[r1].waitedOn].res = "err"
        /\ req[r1].pc = "done"
        /\ req[r1].status # NoStatus
        /\ req[r2].pc = "done"
        /\ req[r2].key # "" /\ req[r2].key # req[r1].key

====
